---- MODULE Spec2Model ----
(***************************************************************************)
(* MarkerClusterer (react-kakao-maps-sdk): the registry that clustered     *)
(* children publish themselves into, the change queue, the flush routine   *)
(* and the effects that create / tear down the kakao.maps.MarkerClusterer  *)
(* instance and trigger the flush.                                         *)
(*                                                                         *)
(* React runs the passive effects of one commit in a fixed order: the      *)
(* effects of the children (the registry calls) first, then the clusterer  *)
(* component's own effects in declaration order (engine effect, then flush *)
(* effect).  Each effect closes over the values of the render it belongs   *)
(* to: `clusterer` and `portals` below are those captured values, while    *)
(* clustererState / portalsState are the values last handed to the state   *)
(* setters, which the next render will capture.                            *)
(*                                                                         *)
(* A registry call is a child's effect (or effect cleanup).  The effects   *)
(* of the children run before the clusterer's own and touch only the       *)
(* queue, so they are taken while the component is "idle": before the      *)
(* render whose effects follow them, or in a commit of the child alone in  *)
(* which the clusterer does not render at all.                             *)
(*                                                                         *)
(* Left out: zIndex and image of the update branch (setZIndex, setImage)   *)
(* and the other props, which decide no branch; the cluster event          *)
(* subscriptions; the unmount of the clusterer itself, after which its     *)
(* refs and state are gone.  lastOp, calls, before, seen, flushedLive,     *)
(* collapsed and queuedBeforeEngine record what happened and are read by   *)
(* no handler; so do registryCalls and marker.registers.                   *)
(*                                                                         *)
(* Marker (the point marker component) is modelled for one instance under  *)
(* the clusterer: its render, the registry effect with its cleanup, and    *)
(* its unmount.  The module-level markerCounter is shared with every other *)
(* Marker of the page.                                                     *)
(***************************************************************************)
EXTENDS Integers, Sequences, FiniteSets, TLC

\* ---- bounds of the model ------------------------------------------------
MaxHandle == 2        \* native objects (kakao.maps.Marker / CustomOverlay) ever constructed
MaxClusterer == 2     \* kakao.maps.MarkerClusterer instances ever constructed
MaxCounter == 4       \* renders of Marker components (values of markerCounter)

\* the children under the clusterer: ids are process-unique, so one id belongs to one
\* child and keeps its kind.  Child 1 is a point marker, child 2 a content overlay.
Ids == {1, 2}
ChildType == {"Marker", "CustomOverlayMap"}
\* two distinct positions (A, B of the scenarios)
Positions == {"A", "B"}
\* nested content (React children): "none" is the falsy / absent content
Contents == {"none", "c1", "c2"}

\* null queue entry (tombstone) / absent Map.get result for descriptors
Null == [type |-> "null"]
\* kakaoInstancesRef.current.get(id) === undefined ; clusterer === undefined
Undefined == 0

ChildDescriptor(id, type, position, children) ==
    [id |-> id, type |-> type, position |-> position, children |-> children]

KindOf(id) == IF id = 1 THEN "Marker" ELSE "CustomOverlayMap"

\* what the child with this id hands to the registry: a point marker moves between the
\* positions and has no nested content, a content overlay stays put and varies its content
ChildInputs(id) ==
    IF KindOf(id) = "Marker"
    THEN { <<"Marker", p, "none">> : p \in Positions }
    ELSE { <<"CustomOverlayMap", "A", c>> : c \in Contents }

VARIABLES
    changesQueue,       \* changesQueueRef.current : insertion-ordered Map id -> descriptor | null
    kakaoInstances,     \* kakaoInstancesRef.current : id -> handle of native object, or Undefined
    markerDescriptors,  \* markerDescriptorsRef.current : id -> descriptor, or Null
    clustererState,     \* value last given to setClusterer (Undefined before the first one)
    clusterer,          \* `clusterer` as captured by the effects of the last render
    portalsState,       \* value last given to setPortals
    portals,            \* `portals` as captured by flushChanges of the last render
    map,                \* useMap(): is the host map handle available
    mounted,            \* has the first commit of the component been rendered
    phase,              \* position inside the commit: "idle", "cleanup", "engine", "flush"
    flushDue,           \* the flush effect's dependencies [clusterer, children] changed
    clusterers,         \* the engine instances constructed so far: [markers, cleared]
    natives,            \* number of native objects constructed so far (a handle is the
                        \* ordinal of the object: handles are never reused)
    calls,              \* engine calls issued by the handler that ran last
    lastOp,             \* the handler that ran last and its argument
    before,             \* what the flush that ran last found: its snapshot `changes`, the
                        \* stores, the portal list and the number of native objects
    queuedBeforeEngine, \* every registry call so far was made while no engine instance existed
    seen,               \* ids ever handed to register
    flushedLive,        \* ids with a create flushed to the engine and no remove since
    collapsed,          \* ids registered and then unregistered since the last flush
    markerCounter,      \* let markerCounter (module level of Marker)
    marker,             \* the Marker instance under the clusterer: is it in the tree, its
                        \* refs `id` and `isMounted`, and how often it has called register
    registryCalls       \* registry calls made by the Marker that committed last

vars == << changesQueue, kakaoInstances, markerDescriptors, clustererState, clusterer,
           portalsState, portals, map, mounted, phase, flushDue,
           clusterers, natives, calls, lastOp, before, queuedBeforeEngine,
           seen, flushedLive, collapsed, markerCounter, marker, registryCalls >>

\* ---- the insertion-ordered Map of the change queue ----------------------

QueueHas(q, id) == \E k \in 1..Len(q) : q[k].id = id

QueueGet(q, id) ==
    IF QueueHas(q, id)
    THEN (CHOOSE k \in 1..Len(q) : q[k].id = id)
    ELSE 0

\* Map.prototype.set: an existing key keeps its place, a new key is appended
QueueSet(q, id, value) ==
    IF QueueHas(q, id)
    THEN [k \in 1..Len(q) |-> IF q[k].id = id THEN [id |-> id, descriptor |-> value] ELSE q[k]]
    ELSE Append(q, [id |-> id, descriptor |-> value])

\* ---- registry (MarkerRegistry handed to the children through context) ---

register(q, descriptor) == QueueSet(q, descriptor.id, descriptor)

unregister(q, id) == QueueSet(q, id, Null)

\* faulty variant of update: an unknown id is registered with a guessed kind, not the supplied one
updateGuessingKind(q, descriptors, id, type, newProps, children) ==
    LET existing == descriptors[id] IN
    IF existing # Null
    THEN QueueSet(q, id, [existing EXCEPT !.position = newProps, !.children = children])
    ELSE register(q, ChildDescriptor(id, "Marker", newProps, children))

\* faulty variant of update: a tombstone already queued for the id is not overwritten
updateKeepingTombstone(q, descriptors, id, type, newProps, children) ==
    LET existing == descriptors[id] IN
    IF QueueHas(q, id) /\ q[QueueGet(q, id)].descriptor = Null
    THEN q
    ELSE IF existing # Null
    THEN QueueSet(q, id, [existing EXCEPT !.position = newProps, !.children = children])
    ELSE register(q, ChildDescriptor(id, type, newProps, children))

\* faulty variant of update: an update for an id bookkeeping does not know is dropped
updateDroppingUnknown(q, descriptors, id, type, newProps, children) ==
    LET existing == descriptors[id] IN
    IF existing # Null
    THEN QueueSet(q, id, [existing EXCEPT !.position = newProps, !.children = children])
    ELSE q

update(q, descriptors, id, type, newProps, children) ==
    LET existing == descriptors[id] IN
    IF existing # Null
    THEN QueueSet(q, id, [existing EXCEPT !.position = newProps, !.children = children])
    ELSE register(q, ChildDescriptor(id, type, newProps, children))

\* ---- flushChanges --------------------------------------------------------

\* the pre-state record of a handler that is not a flush
NoFlush ==
    [changes |-> <<>>, kakaoInstances |-> [i \in Ids |-> Undefined],
     markerDescriptors |-> [i \in Ids |-> Null], portals |-> <<>>, natives |-> 0]

RegistryOp(op, id, type, position, children) ==
    [op |-> op, id |-> id, type |-> type, position |-> position, children |-> children]

Op(op) == RegistryOp(op, 0, "-", "-", "-")

Call(fn, target, markers, position) ==
    [fn |-> fn, target |-> target, markers |-> markers, position |-> position]

\* newPortals.findIndex(p => p.id === id) ; splice(portalIndex, 1)
SplicePortal(ps, id) ==
    IF \E k \in 1..Len(ps) : ps[k].id = id
    THEN LET portalIndex == CHOOSE k \in 1..Len(ps) :
                                /\ ps[k].id = id
                                /\ \A j \in 1..(k - 1) : ps[j].id # id
         IN  SubSeq(ps, 1, portalIndex - 1) \o SubSeq(ps, portalIndex + 1, Len(ps))
    ELSE ps

\* faulty variant of DeleteBranch: the `if (instance)` check is dropped
DeleteBranchUnchecked(acc, id, instance) ==
    [acc EXCEPT !.toRemove = Append(@, instance),
                !.kakaoInstances[id] = Undefined,
                !.markerDescriptors[id] = Null,
                !.newPortals = SplicePortal(@, id)]

\* faulty variant of DeleteBranch: the Portal record of the removed id is kept
DeleteBranchKeepsPortal(acc, id, instance) ==
    IF instance # Undefined
    THEN [acc EXCEPT !.toRemove = Append(@, instance),
                     !.kakaoInstances[id] = Undefined,
                     !.markerDescriptors[id] = Null]
    ELSE acc

\* faulty variant of DeleteBranch: the Instance Store entry of the removed id is kept
DeleteBranchKeepsInstance(acc, id, instance) ==
    IF instance # Undefined
    THEN [acc EXCEPT !.toRemove = Append(@, instance),
                     !.markerDescriptors[id] = Null,
                     !.newPortals = SplicePortal(@, id)]
    ELSE acc

\* descriptor === null
DeleteBranch(acc, id, instance) ==
    IF instance # Undefined
    THEN [acc EXCEPT !.toRemove = Append(@, instance),
                     !.kakaoInstances[id] = Undefined,
                     !.markerDescriptors[id] = Null,
                     !.newPortals = SplicePortal(@, id)]
    ELSE acc

\* descriptor present, no instance: construct the native object
CreateBranch(acc, id, descriptor) ==
    LET newInstance == acc.natives + 1
    IN  [acc EXCEPT !.natives = newInstance,
                    !.newPortals =
                        IF descriptor.type = "CustomOverlayMap" /\ descriptor.children # "none"
                        THEN Append(@, [id |-> id, container |-> newInstance,
                                        children |-> descriptor.children])
                        ELSE @,
                    !.kakaoInstances[id] = newInstance,
                    !.markerDescriptors[id] = descriptor,
                    !.toAdd = Append(@, newInstance)]

\* faulty variant of UpdateBranch: the native object is replaced by a new one, not mutated
UpdateBranchReplacing(acc, id, descriptor, instance) ==
    LET newInstance == acc.natives + 1
    IN  [acc EXCEPT !.natives = newInstance,
                    !.toRemove = Append(@, instance),
                    !.toAdd = Append(@, newInstance),
                    !.kakaoInstances[id] = newInstance,
                    !.markerDescriptors[id] = descriptor]

\* descriptor present, instance present: mutate the native object in place
UpdateBranch(acc, id, descriptor, instance) ==
    [acc EXCEPT !.calls = Append(@, Call("setPosition", instance, <<>>, descriptor.position)),
                !.markerDescriptors[id] = descriptor]

\* the body of changes.forEach((descriptor, id) => ...)
FlushEntry(acc, entry) ==
    LET id == entry.id
        descriptor == entry.descriptor
        instance == acc.kakaoInstances[id]
    IN  IF descriptor = Null THEN DeleteBranch(acc, id, instance)
        ELSE IF instance = Undefined THEN CreateBranch(acc, id, descriptor)
        ELSE UpdateBranch(acc, id, descriptor, instance)

RECURSIVE ForEach(_, _, _)
ForEach(q, k, acc) ==
    IF k > Len(q) THEN acc ELSE ForEach(q, k + 1, FlushEntry(acc, q[k]))

Range(s) == { s[k] : k \in 1..Len(s) }

\* faulty variant of BatchCalls: the length guards of the two batched calls are dropped
BatchCallsUnguarded(acc) ==
    << Call("removeMarkers", clusterer, acc.toRemove, "-"),
       Call("addMarkers", clusterer, acc.toAdd, "-"),
       Call("redraw", clusterer, <<>>, "-") >>

\* the batched calls after the loop, on the clusterer captured by the closure
BatchCalls(acc) ==
    (IF Len(acc.toRemove) > 0
        THEN << Call("removeMarkers", clusterer, acc.toRemove, "-") >> ELSE << >>)
    \o (IF Len(acc.toAdd) > 0
        THEN << Call("addMarkers", clusterer, acc.toAdd, "-") >> ELSE << >>)
    \o << Call("redraw", clusterer, <<>>, "-") >>

\* result of the loop over the snapshot
FlushLoop ==
    ForEach(changesQueue, 1,
            [kakaoInstances |-> kakaoInstances, markerDescriptors |-> markerDescriptors,
             toAdd |-> <<>>, toRemove |-> <<>>, newPortals |-> portals,
             natives |-> natives, calls |-> <<>>])

flushChanges ==
    IF clusterer = Undefined
    THEN /\ UNCHANGED << changesQueue, kakaoInstances, markerDescriptors, portalsState,
                         clusterers, natives, flushedLive >>
         /\ calls' = <<>>
         /\ before' = NoFlush
         /\ lastOp' = Op("flushCanceled")
    ELSE LET acc == FlushLoop IN
         /\ before' = [changes |-> changesQueue, kakaoInstances |-> kakaoInstances,
                        markerDescriptors |-> markerDescriptors, portals |-> portals,
                        natives |-> natives]
         /\ changesQueue' = <<>>
         /\ kakaoInstances' = acc.kakaoInstances
         /\ markerDescriptors' = acc.markerDescriptors
         /\ natives' = acc.natives
         /\ clusterers' = [clusterers EXCEPT ![clusterer].markers =
                              (@ \ Range(acc.toRemove)) \cup Range(acc.toAdd)]
         /\ portalsState' = acc.newPortals
         /\ calls' = acc.calls \o BatchCalls(acc)
         /\ flushedLive' =
               (flushedLive \ { i \in Ids : kakaoInstances[i] \in Range(acc.toRemove) })
                   \cup { i \in Ids : acc.kakaoInstances[i] \in Range(acc.toAdd) }
         /\ lastOp' = Op("flush")

\* ---- actions --------------------------------------------------------------

\* creations the next flush will perform for queue q
PendingCreates(q) ==
    { k \in 1..Len(q) : q[k].descriptor # Null /\ kakaoInstances[q[k].id] = Undefined }

\* ids whose tombstone overwrote a not yet flushed registration
Collapsed == IF lastOp.op = "flush" THEN {} ELSE collapsed

\* no Marker component renders or unmounts in this step
MarkerFrame ==
    /\ registryCalls' = <<>>
    /\ UNCHANGED << markerCounter, marker >>

\* a registry call is a child's effect: nothing of the component or the engine changes
RegistryFrame ==
    /\ MarkerFrame
    /\ UNCHANGED << kakaoInstances, markerDescriptors, clustererState, clusterer,
                    portalsState, portals, map, mounted, phase, flushDue,
                    clusterers, natives, flushedLive >>
    /\ calls' = <<>>
    /\ before' = NoFlush
    /\ queuedBeforeEngine' = (queuedBeforeEngine /\ clustererState = Undefined)

\* registry.register(descriptor), called from a child's effect
Register(descriptor) ==
    /\ phase = "idle"
    /\ changesQueue' = register(changesQueue, descriptor)
    /\ natives + Cardinality(PendingCreates(changesQueue')) <= MaxHandle
    /\ seen' = seen \cup {descriptor.id}
    /\ collapsed' = Collapsed \ {descriptor.id}
    /\ lastOp' = RegistryOp("register", descriptor.id, descriptor.type,
                             descriptor.position, descriptor.children)
    /\ RegistryFrame

\* faulty variant of Unregister: the instance and the bookkeeping entry of the id are
\* deleted at once, not by the next flush
UnregisterEager(id) ==
    /\ phase = "idle"
    /\ changesQueue' = unregister(changesQueue, id)
    /\ kakaoInstances' = [kakaoInstances EXCEPT ![id] = Undefined]
    /\ markerDescriptors' = [markerDescriptors EXCEPT ![id] = Null]
    /\ collapsed' = Collapsed
    /\ lastOp' = RegistryOp("unregister", id, "-", "-", "-")
    /\ calls' = <<>>
    /\ before' = NoFlush
    /\ queuedBeforeEngine' = (queuedBeforeEngine /\ clustererState = Undefined)
    /\ UNCHANGED << clustererState, clusterer, portalsState, portals, map, mounted, phase,
                    flushDue, clusterers, natives, flushedLive, seen >>
    /\ MarkerFrame

\* registry.unregister(id), called from a child's effect cleanup
Unregister(id) ==
    /\ phase = "idle"
    /\ changesQueue' = unregister(changesQueue, id)
    /\ collapsed' =
          IF /\ QueueHas(changesQueue, id)
             /\ changesQueue[QueueGet(changesQueue, id)].descriptor # Null
             /\ kakaoInstances[id] = Undefined
          THEN Collapsed \cup {id}
          ELSE Collapsed
    /\ lastOp' = RegistryOp("unregister", id, "-", "-", "-")
    /\ UNCHANGED seen
    /\ RegistryFrame

\* registry.update(id, type, newProps, children), called from a child's effect
Update(id, type, newProps, children) ==
    /\ phase = "idle"
    /\ changesQueue' = update(changesQueue, markerDescriptors, id, type, newProps, children)
    /\ natives + Cardinality(PendingCreates(changesQueue')) <= MaxHandle
    /\ seen' = IF markerDescriptors[id] = Null THEN seen \cup {id} ELSE seen
    /\ collapsed' = Collapsed \ {id}
    /\ lastOp' = RegistryOp("update", id, type, newProps, children)
    /\ RegistryFrame

\* the component function runs: the effects of this commit capture the current state
Render(childrenChanged, configChanged, mapNow) ==
    /\ phase = "idle"
    /\ map => mapNow
    /\ LET engineDeps == ~mounted \/ configChanged \/ (mapNow # map)
           flushDeps == ~mounted \/ childrenChanged \/ (clustererState # clusterer)
       IN  /\ (engineDeps /\ mapNow) => Len(clusterers) < MaxClusterer
           /\ flushDue' = flushDeps
           /\ phase' = IF engineDeps
                       THEN (IF clustererState # Undefined THEN "cleanup" ELSE "engine")
                       ELSE IF flushDeps THEN "flush" ELSE "idle"
    /\ map' = mapNow
    /\ mounted' = TRUE
    /\ clusterer' = clustererState
    /\ portals' = portalsState
    /\ calls' = <<>>
    /\ before' = NoFlush
    /\ collapsed' = Collapsed
    /\ lastOp' = Op("render")
    /\ UNCHANGED << changesQueue, kakaoInstances, markerDescriptors, clustererState,
                    portalsState, clusterers, natives, seen, flushedLive,
                    queuedBeforeEngine >>
    /\ MarkerFrame

\* cleanup of the engine effect: newClusterer.clear() on the instance that effect created
EngineCleanup ==
    /\ phase = "cleanup"
    /\ clusterers' = [clusterers EXCEPT ![clustererState] = [markers |-> {}, cleared |-> TRUE]]
    /\ calls' = << Call("clear", clustererState, <<>>, "-") >>
    /\ phase' = "engine"
    /\ lastOp' = Op("cleanup")
    /\ UNCHANGED << changesQueue, kakaoInstances, markerDescriptors, clustererState, clusterer,
                    portalsState, portals, map, mounted, flushDue, natives,
                    before, seen, flushedLive, collapsed, queuedBeforeEngine >>
    /\ MarkerFrame

\* the engine effect: construct the instance and hand it to setClusterer
EngineEffect ==
    /\ phase = "engine"
    /\ IF ~map
       THEN /\ UNCHANGED << clusterers, clustererState >>
            /\ calls' = <<>>
       ELSE LET newClusterer == Len(clusterers) + 1 IN
            /\ clusterers' = Append(clusterers, [markers |-> {}, cleared |-> FALSE])
            /\ clustererState' = newClusterer
            /\ calls' = << Call("new MarkerClusterer", newClusterer, <<>>, "-") >>
    /\ phase' = IF flushDue THEN "flush" ELSE "idle"
    /\ lastOp' = Op("engine")
    /\ UNCHANGED << changesQueue, kakaoInstances, markerDescriptors, clusterer,
                    portalsState, portals, map, mounted, flushDue, natives,
                    before, seen, flushedLive, collapsed, queuedBeforeEngine >>
    /\ MarkerFrame

\* faulty variant of FlushEffect: the queue is snapshotted and cleared before the effect looks
\* whether a clusterer exists
FlushEffectClearingFirst ==
    /\ phase = "flush"
    /\ IF clusterer # Undefined /\ Len(changesQueue) > 0
       THEN flushChanges
       ELSE /\ UNCHANGED << kakaoInstances, markerDescriptors, portalsState,
                            clusterers, natives, flushedLive >>
            /\ changesQueue' = <<>>
            /\ calls' = <<>>
            /\ before' = NoFlush
            /\ lastOp' = Op("flushSkipped")
    /\ phase' = "idle"
    /\ UNCHANGED << clustererState, clusterer, portals, map, mounted, flushDue,
                    seen, collapsed, queuedBeforeEngine >>
    /\ MarkerFrame

\* faulty variant of FlushEffect: the effect does not look at the size of the queue
FlushEffectUnguarded ==
    /\ phase = "flush"
    /\ IF clusterer # Undefined
       THEN flushChanges
       ELSE /\ UNCHANGED << changesQueue, kakaoInstances, markerDescriptors, portalsState,
                            clusterers, natives, flushedLive >>
            /\ calls' = <<>>
            /\ before' = NoFlush
            /\ lastOp' = Op("flushSkipped")
    /\ phase' = "idle"
    /\ UNCHANGED << clustererState, clusterer, portals, map, mounted, flushDue,
                    seen, collapsed, queuedBeforeEngine >>
    /\ MarkerFrame

\* the flush effect
FlushEffect ==
    /\ phase = "flush"
    /\ IF clusterer # Undefined /\ Len(changesQueue) > 0
       THEN flushChanges
       ELSE /\ UNCHANGED << changesQueue, kakaoInstances, markerDescriptors, portalsState,
                            clusterers, natives, flushedLive >>
            /\ calls' = <<>>
            /\ before' = NoFlush
            /\ lastOp' = Op("flushSkipped")
    /\ phase' = "idle"
    /\ UNCHANGED << clustererState, clusterer, portals, map, mounted, flushDue,
                    seen, collapsed, queuedBeforeEngine >>
    /\ MarkerFrame

\* faulty variant of SnapshotAndClear: `changes` is the queue itself and not a copy of it,
\* so that clear() empties both
SnapshotAliased(q) == [changes |-> <<>>, live |-> <<>>]

\* const changes = new Map(changesQueueRef.current) ; changesQueueRef.current.clear()
SnapshotAndClear(q) == [changes |-> q, live |-> <<>>]

\* a registry call made on the live queue while bookkeeping is `descriptors`
RegistryCall(q, descriptors, op, id, type, position, children) ==
    CASE op = "register" -> register(q, ChildDescriptor(id, type, position, children))
      [] op = "unregister" -> unregister(q, id)
      [] OTHER -> update(q, descriptors, id, type, position, children)

\* a flush during which a registry call arrived
ReenteredOp(op) ==
    CASE op = "register" -> "flushWithRegister"
      [] op = "unregister" -> "flushWithUnregister"
      [] OTHER -> "flushWithUpdate"

\* the flush effect when a registry call arrives while the pass is in progress, after
\* `at` entries of the snapshot have been handled (at = Len: during the batched calls):
\* JavaScript runs the pass to completion, so such a call can only come from code the
\* pass itself calls into (a native constructor or setter, addMarkers, redraw and the
\* event handlers they fire).  The call works on changesQueueRef.current and, for
\* update, reads bookkeeping as the pass has left it so far; the loop goes over `changes`.
FlushEffectReentered(at, op, id, type, position, children) ==
    /\ phase = "flush"
    /\ clusterer # Undefined
    /\ Len(changesQueue) > 0
    /\ at \in 0..Len(changesQueue)
    /\ LET taken == SnapshotAndClear(changesQueue)
           mid == ForEach(SubSeq(taken.changes, 1, at), 1,
                          [kakaoInstances |-> kakaoInstances,
                           markerDescriptors |-> markerDescriptors,
                           toAdd |-> <<>>, toRemove |-> <<>>, newPortals |-> portals,
                           natives |-> natives, calls |-> <<>>])
           arrived == RegistryCall(taken.live, mid.markerDescriptors,
                                   op, id, type, position, children)
           acc == ForEach(SubSeq(taken.changes, at + 1, Len(taken.changes)), 1, mid)
       IN  /\ acc.natives + Cardinality({ k \in 1..Len(arrived) :
                                             /\ arrived[k].descriptor # Null
                                             /\ acc.kakaoInstances[arrived[k].id] = Undefined })
                 <= MaxHandle
           /\ before' = [changes |-> changesQueue, kakaoInstances |-> kakaoInstances,
                          markerDescriptors |-> markerDescriptors, portals |-> portals,
                          natives |-> natives]
           /\ changesQueue' = arrived
           /\ kakaoInstances' = acc.kakaoInstances
           /\ markerDescriptors' = acc.markerDescriptors
           /\ natives' = acc.natives
           /\ clusterers' = [clusterers EXCEPT ![clusterer].markers =
                                (@ \ Range(acc.toRemove)) \cup Range(acc.toAdd)]
           /\ portalsState' = acc.newPortals
           /\ calls' = acc.calls \o BatchCalls(acc)
           /\ flushedLive' =
                 (flushedLive \ { i \in Ids : kakaoInstances[i] \in Range(acc.toRemove) })
                     \cup { i \in Ids : acc.kakaoInstances[i] \in Range(acc.toAdd) }
           /\ seen' = IF op = "register" \/ (op = "update" /\ mid.markerDescriptors[id] = Null)
                      THEN seen \cup {id} ELSE seen
    /\ lastOp' = RegistryOp(ReenteredOp(op), id, type, position, children)
    /\ collapsed' = {}
    /\ queuedBeforeEngine' = FALSE
    /\ phase' = "idle"
    /\ UNCHANGED << clustererState, clusterer, portals, map, mounted, flushDue >>
    /\ MarkerFrame

\* the loop over the snapshot as far as it got before entry number `at` threw
LoopBefore(at) ==
    ForEach(SubSeq(changesQueue, 1, at - 1), 1,
            [kakaoInstances |-> kakaoInstances, markerDescriptors |-> markerDescriptors,
             toAdd |-> <<>>, toRemove |-> <<>>, newPortals |-> portals,
             natives |-> natives, calls |-> <<>>])

\* the flush effect when the construction of the native object of child `failing` throws
\* (new kakao.maps.LatLng / Marker / CustomOverlay on malformed props): nothing in
\* flushChanges catches, so the exception leaves the forEach callback, flushChanges and
\* the effect.  What ran before the throw stays: the queue is cleared and the entries
\* ahead of the failing one have changed the refs; what comes after never runs: the
\* rest of the loop, removeMarkers, addMarkers, setPortals, redraw.  An effect that
\* throws takes the component down ("crashed": no handler runs any more).
FlushEffectThrowing(failing) ==
    /\ phase = "flush"
    /\ clusterer # Undefined
    /\ Len(changesQueue) > 0
    /\ QueueHas(changesQueue, failing)
    /\ changesQueue[QueueGet(changesQueue, failing)].descriptor # Null
    /\ kakaoInstances[failing] = Undefined
    /\ LET acc == LoopBefore(QueueGet(changesQueue, failing)) IN
       /\ before' = [changes |-> changesQueue, kakaoInstances |-> kakaoInstances,
                      markerDescriptors |-> markerDescriptors, portals |-> portals,
                      natives |-> natives]
       /\ changesQueue' = <<>>
       /\ kakaoInstances' = acc.kakaoInstances
       /\ markerDescriptors' = acc.markerDescriptors
       /\ natives' = acc.natives
       /\ calls' = acc.calls
    /\ lastOp' = RegistryOp("flushThrew", failing, "-", "-", "-")
    /\ phase' = "crashed"
    /\ UNCHANGED << clustererState, clusterer, portalsState, portals, map, mounted, flushDue,
                    clusterers, seen, flushedLive, collapsed, queuedBeforeEngine >>
    /\ MarkerFrame

\* ---- Marker (part_000) ----------------------------------------------------

\* a Marker component other than the one under the clusterer renders: the argument of
\* useRef(markerCounter++) is evaluated on every render of every Marker
OtherMarkerRender ==
    /\ phase = "idle"
    /\ markerCounter < MaxCounter
    /\ markerCounter' = markerCounter + 1
    /\ registryCalls' = <<>>
    /\ lastOp' = Op("otherMarker")
    /\ calls' = <<>>
    /\ before' = NoFlush
    /\ collapsed' = Collapsed
    /\ UNCHANGED << marker, changesQueue, kakaoInstances, markerDescriptors, clustererState,
                    clusterer, portalsState, portals, map, mounted, phase, flushDue,
                    clusterers, natives, queuedBeforeEngine, seen, flushedLive >>

\* faulty variant of MarkerEffect: isMounted is not consulted, every run registers
MarkerEffectAlwaysRegistering(q, isMounted, id, props, children) ==
    [queue |-> register(q, ChildDescriptor(id, "Marker", props, children)),
     called |-> << RegistryOp("register", id, "Marker", props, children) >>,
     registered |-> TRUE]

\* the body of the registry effect on queue q
MarkerEffect(q, isMounted, id, props, children) ==
    IF ~isMounted
    THEN [queue |-> register(q, ChildDescriptor(id, "Marker", props, children)),
          called |-> << RegistryOp("register", id, "Marker", props, children) >>,
          registered |-> TRUE]
    ELSE [queue |-> update(q, markerDescriptors, id, "Marker", props, children),
          called |-> << RegistryOp("update", id, "Marker", props, children) >>,
          registered |-> FALSE]

\* faulty variant of MarkerCleanup: the effect returns no cleanup
MarkerCleanupMissing(q, id) == [queue |-> q, called |-> << >>]

\* the cleanup the registry effect returns
MarkerCleanup(q, id) ==
    [queue |-> unregister(q, id), called |-> << RegistryOp("unregister", id, "-", "-", "-") >>]

\* the Marker under the clusterer renders with `props` and commits.  On its first render
\* useRef keeps the value of markerCounter as its id; on a later one the refs are
\* those of the first.  `props` is a new rest object on every render, so the effect's
\* dependencies [registry, id, props, children] have changed every time: the cleanup of
\* the previous run is called, then the effect.  The stores of the clusterer are
\* modelled for Ids, so the Marker followed is one whose id is the point marker's.
MarkerRender(props) ==
    /\ phase = "idle"
    /\ marker.inTree # "gone"
    /\ markerCounter < MaxCounter
    /\ marker.inTree = "no" => (markerCounter \in Ids /\ KindOf(markerCounter) = "Marker")
    /\ LET id == IF marker.inTree = "no" THEN markerCounter ELSE marker.id
           cleaned == IF marker.inTree = "no"
                      THEN [queue |-> changesQueue, called |-> << >>]
                      ELSE MarkerCleanup(changesQueue, id)
           ran == MarkerEffect(cleaned.queue, marker.isMounted, id, props, "none")
       IN  /\ markerCounter' = markerCounter + 1
           /\ changesQueue' = ran.queue
           /\ natives + Cardinality(PendingCreates(changesQueue')) <= MaxHandle
           /\ marker' = [inTree |-> "yes", id |-> id, isMounted |-> TRUE,
                         registers |-> marker.registers + (IF ran.registered THEN 1 ELSE 0)]
           /\ registryCalls' = cleaned.called \o ran.called
           /\ seen' = seen \cup {id}
           /\ collapsed' = Collapsed \ {id}
           /\ lastOp' = RegistryOp("markerRender", id, "Marker", props, "none")
    /\ calls' = <<>>
    /\ before' = NoFlush
    /\ queuedBeforeEngine' = (queuedBeforeEngine /\ clustererState = Undefined)
    /\ UNCHANGED << kakaoInstances, markerDescriptors, clustererState, clusterer,
                    portalsState, portals, map, mounted, phase, flushDue,
                    clusterers, natives, flushedLive >>

\* the Marker under the clusterer is unmounted: the cleanup of its effect is called
MarkerUnmount ==
    /\ phase = "idle"
    /\ marker.inTree = "yes"
    /\ LET cleaned == MarkerCleanup(changesQueue, marker.id) IN
       /\ changesQueue' = cleaned.queue
       /\ registryCalls' = cleaned.called
    /\ marker' = [marker EXCEPT !.inTree = "gone"]
    /\ collapsed' =
          IF /\ QueueHas(changesQueue, marker.id)
             /\ changesQueue[QueueGet(changesQueue, marker.id)].descriptor # Null
             /\ kakaoInstances[marker.id] = Undefined
          THEN Collapsed \cup {marker.id}
          ELSE Collapsed
    /\ lastOp' = RegistryOp("markerUnmount", marker.id, "-", "-", "-")
    /\ calls' = <<>>
    /\ before' = NoFlush
    /\ queuedBeforeEngine' = (queuedBeforeEngine /\ clustererState = Undefined)
    /\ UNCHANGED << markerCounter, kakaoInstances, markerDescriptors, clustererState,
                    clusterer, portalsState, portals, map, mounted, phase, flushDue,
                    clusterers, natives, seen, flushedLive >>

Init ==
    /\ changesQueue = <<>>
    /\ kakaoInstances = [i \in Ids |-> Undefined]
    /\ markerDescriptors = [i \in Ids |-> Null]
    /\ clustererState = Undefined
    /\ clusterer = Undefined
    /\ portalsState = <<>>
    /\ portals = <<>>
    /\ map = FALSE
    /\ mounted = FALSE
    /\ phase = "idle"
    /\ flushDue = FALSE
    /\ clusterers = <<>>
    /\ natives = 0
    /\ calls = <<>>
    /\ lastOp = Op("init")
    /\ before = NoFlush
    /\ queuedBeforeEngine = TRUE
    /\ seen = {}
    /\ flushedLive = {}
    /\ collapsed = {}
    /\ markerCounter = 0
    /\ marker = [inTree |-> "no", id |-> 0, isMounted |-> FALSE, registers |-> 0]
    /\ registryCalls = <<>>

Next ==
    \/ \E id \in Ids : \E in \in ChildInputs(id) : Register(ChildDescriptor(id, in[1], in[2], in[3]))
    \/ \E id \in Ids : Unregister(id)
    \/ \E id \in Ids : \E in \in ChildInputs(id) : Update(id, in[1], in[2], in[3])
    \/ \E childrenChanged \in BOOLEAN, configChanged \in BOOLEAN, mapNow \in BOOLEAN :
          Render(childrenChanged, configChanged, mapNow)
    \/ EngineCleanup
    \/ EngineEffect
    \/ FlushEffect

Spec == Init /\ [][Next]_vars

\* React runs every effect of a commit it has started, and keeps rendering the
\* component: after a state setter was called, and whenever the parent renders again
\* (here with the same `children` and the same configuration).  That the parent hands
\* over new `children` is up to the application and is not assumed.
FairSpec ==
    /\ Spec
    /\ WF_vars(EngineCleanup)
    /\ WF_vars(EngineEffect)
    /\ WF_vars(FlushEffect)
    /\ WF_vars(Render(FALSE, FALSE, map))

\* the component when a native constructor may throw on the props of a child
ThrowingNext ==
    \/ Next
    \/ \E failing \in Ids : FlushEffectThrowing(failing)

ThrowingSpec == Init /\ [][ThrowingNext]_vars

\* the component when code the flush calls into may call the registry
ReentrantNext ==
    \/ Next
    \/ \E at \in 0..Cardinality(Ids), op \in {"register", "update", "unregister"}, id \in Ids :
          \E in \in ChildInputs(id) : FlushEffectReentered(at, op, id, in[1], in[2], in[3])

ReentrantSpec == Init /\ [][ReentrantNext]_vars

\* the clusterer with a Marker component as its point marker child; the other children
\* call the registry as before
OtherIds == { id \in Ids : KindOf(id) # "Marker" }

MarkerNext ==
    \/ OtherMarkerRender
    \/ \E props \in Positions : MarkerRender(props)
    \/ MarkerUnmount
    \/ \E id \in OtherIds : \E in \in ChildInputs(id) :
          Register(ChildDescriptor(id, in[1], in[2], in[3]))
    \/ \E id \in OtherIds : Unregister(id)
    \/ \E id \in OtherIds : \E in \in ChildInputs(id) : Update(id, in[1], in[2], in[3])
    \/ \E childrenChanged \in BOOLEAN, configChanged \in BOOLEAN, mapNow \in BOOLEAN :
          Render(childrenChanged, configChanged, mapNow)
    \/ EngineCleanup
    \/ EngineEffect
    \/ FlushEffect

MarkerSpec == Init /\ [][MarkerNext]_vars

\* ==== properties ============================================================

\* the handler that ran last is a flush that went through flushChanges
Flushed == lastOp.op = "flush"

\* the entry the last flush's snapshot held for id (Null descriptor = tombstone)
Snapshot(id) == before.changes[QueueGet(before.changes, id)].descriptor

\* ids the last flush's snapshot held a descriptor / a tombstone for
Described == { id \in Ids : QueueHas(before.changes, id) /\ Snapshot(id) # Null }
Tombstones == { id \in Ids : QueueHas(before.changes, id) /\ Snapshot(id) = Null }

\* create intents (descriptor, no live instance), removals of a live instance,
\* in-place updates (descriptor, live instance) of the last flush
Creates == { id \in Described : before.kakaoInstances[id] = Undefined }
Removes == { id \in Tombstones : before.kakaoInstances[id] # Undefined }
Updates == { id \in Described : before.kakaoInstances[id] # Undefined }

CallsOf(fn) == SelectSeq(calls, LAMBDA c : c.fn = fn)

\* the handles passed to the batched call fn by the last handler
Passed(fn) == UNION { Range(CallsOf(fn)[k].markers) : k \in 1..Len(CallsOf(fn)) }

\* fn was called exactly once, with exactly the handles hs (each once), on engine e;
\* or not at all when hs is empty
CalledOnceWith(fn, hs, e) ==
    IF hs = {}
    THEN Len(CallsOf(fn)) = 0
    ELSE /\ Len(CallsOf(fn)) = 1
         /\ CallsOf(fn)[1].target = e
         /\ Range(CallsOf(fn)[1].markers) = hs
         /\ Len(CallsOf(fn)[1].markers) = Cardinality(hs)

\* ---- C1 ---------------------------------------------------------------------
\* C1 as stated: the first flush after the engine became available, over a queue of N
\* create intents and M tombstones that accumulated while no engine instance existed,
\* calls addMarkers exactly once with all N created instances, removeMarkers exactly
\* once with all M (zero times each for N = 0, M = 0), and redraw exactly once.
C1_BatchAsStated ==
    (Flushed /\ queuedBeforeEngine) =>
        /\ CalledOnceWith("addMarkers", { kakaoInstances[id] : id \in Creates }, clusterer)
        /\ Len(CallsOf("removeMarkers")) = (IF Tombstones = {} THEN 0 ELSE 1)
        /\ Tombstones # {} =>
               Len(CallsOf("removeMarkers")[1].markers) = Cardinality(Tombstones)
        /\ Len(CallsOf("redraw")) = 1

\* C1 amended: every flush calls addMarkers exactly once with the N newly created
\* instances (not at all if N = 0), removeMarkers exactly once with the instances of the
\* tombstoned ids that had a live instance (not at all if there is none: a tombstone for
\* an id without instance, as every tombstone queued before any engine existed is,
\* contributes nothing), and redraw exactly once, all on the captured clusterer.
C1_Batch ==
    Flushed =>
        /\ \A id \in Creates : kakaoInstances[id] > before.natives
        /\ CalledOnceWith("addMarkers", { kakaoInstances[id] : id \in Creates }, clusterer)
        /\ CalledOnceWith("removeMarkers",
                          { before.kakaoInstances[id] : id \in Removes }, clusterer)
        /\ Len(CallsOf("redraw")) = 1
        /\ CallsOf("redraw")[1].target = clusterer
        /\ queuedBeforeEngine => Len(CallsOf("removeMarkers")) = 0

\* a flush with a creation and a removal of a live instance in the same snapshot
C1_Witness == Flushed /\ Creates # {} /\ Removes # {}

\* ---- C2 ---------------------------------------------------------------------
\* the handles the engine instance e holds
Markers(e) == clusterers[e].markers

\* C2: the cleanup of the engine effect (teardown on a configuration change) leaves the
\* Instance Store empty, so that no later flush updates in place an id whose native
\* object the engine flushed against does not hold: such an id is created again.
C2_TeardownEmptiesStore ==
    /\ lastOp.op = "cleanup" => \A id \in Ids : kakaoInstances[id] = Undefined
    /\ Flushed => \A id \in Updates : kakaoInstances[id] \in Markers(clusterer)

\* ---- C3 ---------------------------------------------------------------------
\* the positions at which queue q holds an entry for id
EntriesFor(q, id) == { k \in 1..Len(q) : q[k].id = id }

\* handles of the native objects that belong (or belonged, before the last flush) to
\* the ids in S
HandlesOf(S) ==
    { kakaoInstances[j] : j \in S } \cup { before.kakaoInstances[j] : j \in S }

\* C3: an id without live instance that was registered and then unregistered with no
\* flush in between has exactly one queue entry, a tombstone; the flush that takes it
\* constructs no native object for it, records nothing for it and passes no object of
\* it to addMarkers, removeMarkers or setPosition.
C3_Collapse ==
    /\ ~Flushed =>
          \A id \in collapsed :
              /\ Cardinality(EntriesFor(changesQueue, id)) = 1
              /\ changesQueue[QueueGet(changesQueue, id)].descriptor = Null
    /\ Flushed =>
          \A id \in collapsed :
              /\ id \in Tombstones
              /\ kakaoInstances[id] = Undefined
              /\ markerDescriptors[id] = Null
              /\ natives = before.natives + Cardinality(Creates \ {id})
              /\ Passed("addMarkers") \cup Passed("removeMarkers")
                     \subseteq HandlesOf(Ids \ {id}) \ {Undefined}
              /\ \A k \in 1..Len(calls) :
                     calls[k].fn = "setPosition" =>
                         calls[k].target \in HandlesOf(Ids \ {id}) \ {Undefined}

\* a flush that took a collapsed id together with a creation for the other id
C3_Witness == Flushed /\ collapsed # {} /\ Creates # {}

\* ---- C4 ---------------------------------------------------------------------
\* C4: whenever an engine instance exists and the Change Queue is non-empty, a flush is
\* triggered: under fair scheduling of the render/commit cycles the queue is eventually
\* drained, also when the entries come from a child that rendered on its own.
C4_FlushTriggered ==
    (clustererState # Undefined /\ Len(changesQueue) > 0) ~> (Len(changesQueue) = 0)

\* ---- C5 ---------------------------------------------------------------------
\* the positions at which the portal list ps holds a record for id
RecordsFor(ps, id) == { k \in 1..Len(ps) : ps[k].id = id }

\* C5: no two Portal records ever share an id; the flush that creates the instance of a
\* content overlay with non-empty nested content leaves exactly one Portal record for
\* its id (that content, in the container of the new instance); the flush that takes a
\* tombstone leaves no Portal record for its id.
C5_PortalLifecycle ==
    /\ \A id \in Ids :
          /\ Cardinality(RecordsFor(portalsState, id)) <= 1
          /\ Cardinality(RecordsFor(portals, id)) <= 1
    /\ Flushed =>
          /\ \A id \in Creates :
                (Snapshot(id).type = "CustomOverlayMap" /\ Snapshot(id).children # "none") =>
                    /\ Cardinality(RecordsFor(portalsState, id)) = 1
                    /\ \A k \in RecordsFor(portalsState, id) :
                          /\ portalsState[k].children = Snapshot(id).children
                          /\ portalsState[k].container = kakaoInstances[id]
          /\ \A id \in Tombstones : RecordsFor(portalsState, id) = {}

\* a flush that removed a content overlay whose Portal record an earlier flush created
C5_Witness ==
    /\ Flushed
    /\ \E id \in Removes : RecordsFor(before.portals, id) # {}

\* ---- C6 ---------------------------------------------------------------------
\* id is a live content overlay whose current nested content is non-empty
LiveWithContent(id) ==
    /\ kakaoInstances[id] # Undefined
    /\ markerDescriptors[id].type = "CustomOverlayMap"
    /\ markerDescriptors[id].children # "none"

\* C6: after every flush a Portal record exists for an id exactly when the id is a live
\* content overlay with non-empty current content, and the record holds that content
\* (so the record of an overlay updated with different content holds the new content).
C6_PortalTracksContent ==
    Flushed =>
        \A id \in Ids :
            /\ (RecordsFor(portalsState, id) # {}) <=> LiveWithContent(id)
            /\ \A k \in RecordsFor(portalsState, id) :
                  portalsState[k].children = markerDescriptors[id].children

\* ---- C7 ---------------------------------------------------------------------
\* C7: update for an id the Descriptor bookkeeping does not know leaves the queue as
\* register of {id, the supplied kind, props, children} would, whatever the queue
\* held, and leaves bookkeeping and Instance Store alone.
C7_UpdateUnknownRegisters ==
    [][ (lastOp'.op = "update" /\ markerDescriptors[lastOp'.id] = Null) =>
            /\ changesQueue' =
                   register(changesQueue,
                            ChildDescriptor(lastOp'.id, lastOp'.type,
                                            lastOp'.position, lastOp'.children))
            /\ UNCHANGED << markerDescriptors, kakaoInstances >> ]_vars

\* update of a content overlay that bookkeeping does not know (an earlier flush has
\* constructed native objects), over a queue that already held an entry for it
C7_Witness ==
    /\ lastOp.op = "update"
    /\ lastOp.type = "CustomOverlayMap"
    /\ markerDescriptors[lastOp.id] = Null
    /\ natives > 0
    /\ Len(changesQueue) > 1
    /\ changesQueue[1].id = lastOp.id

\* ---- C8 ---------------------------------------------------------------------
\* the ids that have an instance in store st
Keys(st) == { id \in Ids : st[id] # Undefined }

\* C8: the scenario of one point marker (child 1), flush by flush.  A flush whose
\* snapshot is just the registration of the marker constructs one object, passes it to
\* addMarkers and adds exactly id 1 to the Instance Store; a flush whose snapshot is just
\* an update of the live marker calls setPosition once on the existing object with the
\* new position, calls neither addMarkers nor removeMarkers and constructs nothing; a
\* flush whose snapshot is just its tombstone calls removeMarkers with exactly that
\* object and takes exactly id 1 out of the Instance Store.
C8_MarkerScenario ==
    (Flushed /\ Len(before.changes) = 1 /\ before.changes[1].id = 1) =>
        LET d == before.changes[1].descriptor
            old == before.kakaoInstances[1]
        IN  /\ (d # Null /\ old = Undefined) =>
                  /\ natives = before.natives + 1
                  /\ kakaoInstances = [before.kakaoInstances EXCEPT ![1] = natives]
                  /\ Keys(kakaoInstances) = Keys(before.kakaoInstances) \cup {1}
                  /\ calls = << Call("addMarkers", clusterer, << natives >>, "-"),
                                Call("redraw", clusterer, <<>>, "-") >>
            /\ (d # Null /\ old # Undefined) =>
                  /\ natives = before.natives
                  /\ kakaoInstances = before.kakaoInstances
                  /\ calls = << Call("setPosition", old, <<>>, d.position),
                                Call("redraw", clusterer, <<>>, "-") >>
            /\ (d = Null /\ old # Undefined) =>
                  /\ natives = before.natives
                  /\ kakaoInstances = [before.kakaoInstances EXCEPT ![1] = Undefined]
                  /\ Keys(kakaoInstances) = Keys(before.kakaoInstances) \ {1}
                  /\ calls = << Call("removeMarkers", clusterer, << old >>, "-"),
                                Call("redraw", clusterer, <<>>, "-") >>

\* the middle of the scenario: the marker, alone in the Instance Store and recorded at
\* position A, has just been updated in place to position B
C8_Witness ==
    /\ Flushed
    /\ Len(before.changes) = 1
    /\ before.changes[1].id = 1
    /\ before.changes[1].descriptor # Null
    /\ before.changes[1].descriptor.position = "B"
    /\ Keys(before.kakaoInstances) = {1}
    /\ before.markerDescriptors[1].position = "A"
    /\ markerDescriptors[1].position = "B"

\* ---- C9 ---------------------------------------------------------------------
\* C9: the Instance Store holds a handle for an id exactly when a create for the id was
\* flushed to the engine (addMarkers) with no remove (removeMarkers) flushed since; no
\* handle is held for two ids; every id in the store was registered before.
C9_InstanceStore ==
    /\ \A id \in Ids : (kakaoInstances[id] # Undefined) <=> (id \in flushedLive)
    /\ \A i, j \in Keys(kakaoInstances) : (kakaoInstances[i] = kakaoInstances[j]) => (i = j)
    /\ \A id \in Keys(kakaoInstances) : kakaoInstances[id] \in 1..natives
    /\ Keys(kakaoInstances) \subseteq seen

\* an id whose instance was removed by a flush while the other id is still live
C9_Witness ==
    /\ Flushed
    /\ Removes # {}
    /\ Keys(kakaoInstances) # {}
    /\ Keys(kakaoInstances) # seen

\* ---- C10 --------------------------------------------------------------------
\* C10: a flush effect that runs while the captured clusterer is absent changes neither
\* queue, Instance Store, bookkeeping nor Portal list and calls nothing; and neither a
\* render nor the engine effect or its cleanup touches the queue, so the entries are
\* there for the first flush after the engine instance appeared.
C10_FlushWithoutEngine ==
    [][ /\ (phase = "flush" /\ clusterer = Undefined) =>
              /\ UNCHANGED << changesQueue, kakaoInstances, markerDescriptors,
                              portalsState, portals, clusterers, natives >>
              /\ calls' = <<>>
        /\ lastOp'.op \in {"render", "cleanup", "engine"} => UNCHANGED changesQueue ]_vars

\* the flush effect has just run without clusterer over a non-empty queue, in the
\* commit in which the engine instance was constructed
C10_Witness ==
    /\ lastOp.op = "flushSkipped"
    /\ clusterer = Undefined
    /\ clustererState # Undefined
    /\ Len(changesQueue) > 0

\* ---- C11 --------------------------------------------------------------------
\* the flush effect that ran last ended in an exception
Threw == lastOp.op = "flushThrew"

\* C11: when the construction of the native object of one child fails during a flush,
\* the failing id is recorded neither in the Instance Store nor in bookkeeping and is in
\* no create batch, and every other id of the snapshot is processed as if the failing
\* child were absent: the object created for it is in the Instance Store and was passed
\* to addMarkers, the object removed for it is out of the Instance Store and was
\* passed to removeMarkers.
C11_FailureIsolated ==
    Threw =>
        /\ kakaoInstances[lastOp.id] = Undefined
        /\ markerDescriptors[lastOp.id] = Null
        /\ \A id \in Creates \ {lastOp.id} :
               /\ kakaoInstances[id] # Undefined
               /\ kakaoInstances[id] \in Passed("addMarkers")
               /\ kakaoInstances[id] \in Markers(clusterer)
        /\ \A id \in Removes :
               /\ kakaoInstances[id] = Undefined
               /\ before.kakaoInstances[id] \in Passed("removeMarkers")
               /\ before.kakaoInstances[id] \notin Markers(clusterer)

\* ---- C12 --------------------------------------------------------------------
\* ids that had neither instance nor bookkeeping entry when the last flush began: the
\* state a flush leaves an id in that it removed
GoneBefore == { id \in Ids : before.kakaoInstances[id] = Undefined
                                /\ before.markerDescriptors[id] = Null }

\* C12: for an id bookkeeping does not know (any more: a flush removed it), update
\* leaves in the queue the entry a fresh registration with the supplied kind, props and
\* content leaves, and unregister leaves a tombstone; the next flush takes the former
\* through the create branch (a new object, recorded and passed to addMarkers, nothing
\* removed or mutated) and does nothing for the latter: it constructs no object for
\* the id, passes none to the engine and leaves both stores and the Portal list as
\* they were for it.
C12_StaleReference ==
    /\ (lastOp.op = "update" /\ markerDescriptors[lastOp.id] = Null) =>
          /\ kakaoInstances[lastOp.id] = Undefined
          /\ Cardinality(EntriesFor(changesQueue, lastOp.id)) = 1
          /\ changesQueue[QueueGet(changesQueue, lastOp.id)].descriptor =
                 ChildDescriptor(lastOp.id, lastOp.type, lastOp.position, lastOp.children)
    /\ (lastOp.op = "unregister" /\ markerDescriptors[lastOp.id] = Null) =>
          /\ kakaoInstances[lastOp.id] = Undefined
          /\ Cardinality(EntriesFor(changesQueue, lastOp.id)) = 1
          /\ changesQueue[QueueGet(changesQueue, lastOp.id)].descriptor = Null
    /\ Flushed =>
          \A id \in GoneBefore :
              /\ id \in Described =>
                    /\ kakaoInstances[id] \in (before.natives + 1)..natives
                    /\ markerDescriptors[id] = Snapshot(id)
                    /\ kakaoInstances[id] \in Passed("addMarkers")
                    /\ kakaoInstances[id] \notin Passed("removeMarkers")
                    /\ \A k \in 1..Len(calls) :
                           calls[k].fn = "setPosition" => calls[k].target # kakaoInstances[id]
              /\ id \in Tombstones =>
                    /\ kakaoInstances[id] = Undefined
                    /\ markerDescriptors[id] = Null
                    /\ natives = before.natives + Cardinality(Creates \ {id})
                    /\ Passed("addMarkers") \cup Passed("removeMarkers")
                           \subseteq HandlesOf(Ids \ {id}) \ {Undefined}
                    /\ RecordsFor(portalsState, id) = RecordsFor(before.portals, id)

\* the point marker, the only child there ever was, had its one object removed by an
\* earlier flush; the flush that just ran created a second object for it
C12_Witness ==
    /\ Flushed
    /\ seen = {1}
    /\ before.natives = 1
    /\ 1 \in GoneBefore
    /\ 1 \in Creates
    /\ kakaoInstances[1] = 2

\* ---- C13 --------------------------------------------------------------------
\* C13: the entries pending at a teardown are applied to the engine instance constructed
\* after it: the native object a flush creates is passed to addMarkers of the newest
\* instance (the one last handed to setClusterer), which then holds it, and no other
\* instance holds it.
C13_ReplayOnNewEngine ==
    Flushed =>
        \A id \in Creates :
            /\ CallsOf("addMarkers")[1].target = clustererState
            /\ kakaoInstances[id] \in Markers(clustererState)
            /\ \A e \in 1..Len(clusterers) :
                   e # clustererState => kakaoInstances[id] \notin Markers(e)

\* ---- C14 --------------------------------------------------------------------
\* C14: register, update and unregister change nothing but the Change Queue: Instance
\* Store, Descriptor bookkeeping, Portal list (as set and as captured), the marker sets
\* of the engine instances and the number of native objects stay as they are and no
\* engine call is issued; the Instance Store and bookkeeping change in no handler but
\* a flush.
C14_RegistryFrame ==
    [][ /\ lastOp'.op \in {"register", "update", "unregister"} =>
              /\ UNCHANGED << kakaoInstances, markerDescriptors, portalsState, portals,
                              clusterers, clustererState, natives >>
              /\ calls' = <<>>
        /\ (kakaoInstances' # kakaoInstances \/ markerDescriptors' # markerDescriptors) =>
              lastOp'.op = "flush" ]_vars

\* unregister has just been called for the content overlay while its instance is live,
\* held by the engine and shown through a Portal record: all of it is still there
C14_Witness ==
    /\ lastOp.op = "unregister"
    /\ kakaoInstances[lastOp.id] # Undefined
    /\ markerDescriptors[lastOp.id] # Null
    /\ RecordsFor(portalsState, lastOp.id) # {}
    /\ clustererState # Undefined
    /\ kakaoInstances[lastOp.id] \in Markers(clustererState)
    /\ changesQueue[QueueGet(changesQueue, lastOp.id)].descriptor = Null

\* ---- C15 --------------------------------------------------------------------
\* the last handler was a flush during which a registry call arrived
Reentered == lastOp.op \in {"flushWithRegister", "flushWithUpdate", "flushWithUnregister"}

\* what the loop makes of the snapshot of the last flush when nothing interferes
Undisturbed ==
    ForEach(before.changes, 1,
            [kakaoInstances |-> before.kakaoInstances,
             markerDescriptors |-> before.markerDescriptors,
             toAdd |-> <<>>, toRemove |-> <<>>, newPortals |-> before.portals,
             natives |-> before.natives, calls |-> <<>>])

\* C15: a registry call that arrives while a flush pass is in progress changes nothing
\* of what the pass creates, updates and removes (stores, Portal list, native objects
\* and engine calls are those of the undisturbed pass over the snapshot), and when the
\* pass ends the queue holds exactly the entry of that call: the descriptor for
\* register and update, a tombstone for unregister.
C15_SnapshotIsolation ==
    Reentered =>
        /\ kakaoInstances = Undisturbed.kakaoInstances
        /\ markerDescriptors = Undisturbed.markerDescriptors
        /\ natives = Undisturbed.natives
        /\ portalsState = Undisturbed.newPortals
        /\ calls = Undisturbed.calls \o BatchCalls(Undisturbed)
        /\ Len(changesQueue) = 1
        /\ changesQueue[1].id = lastOp.id
        /\ lastOp.op = "flushWithUnregister" => changesQueue[1].descriptor = Null
        /\ lastOp.op # "flushWithUnregister" =>
               /\ changesQueue[1].descriptor # Null
               /\ changesQueue[1].descriptor.id = lastOp.id
               /\ changesQueue[1].descriptor.type = lastOp.type
               /\ changesQueue[1].descriptor.position = lastOp.position
               /\ changesQueue[1].descriptor.children = lastOp.children

\* an update of the point marker arrived in the middle of a pass over a snapshot that
\* also held an entry for the marker, which the pass handled as a creation
C15_Witness ==
    /\ lastOp.op = "flushWithUpdate"
    /\ lastOp.id = 1
    /\ Len(before.changes) = 2
    /\ 1 \in Creates
    /\ kakaoInstances[1] # Undefined
    /\ changesQueue[1].descriptor.position # markerDescriptors[1].position

\* ---- C16 --------------------------------------------------------------------
\* the calls to an engine instance made by the handler that ran last
EngineCalls ==
    SelectSeq(calls, LAMBDA c : c.fn \in {"addMarkers", "removeMarkers", "redraw", "clear"})

\* C16: a flush effect that finds the queue empty goes through no flush and makes no
\* call at all; addMarkers, removeMarkers and redraw are only ever called by a flush
\* whose snapshot is non-empty.
C16_NoCallOnEmptyQueue ==
    /\ Flushed => Len(before.changes) > 0
    /\ lastOp.op \in {"flushSkipped", "flushCanceled"} => calls = <<>>
    /\ \A k \in 1..Len(calls) :
          calls[k].fn \in {"addMarkers", "removeMarkers", "redraw"} =>
              Flushed /\ Len(before.changes) > 0

\* the flush effect has just run with an engine instance that holds a marker and an
\* empty queue
C16_Witness ==
    /\ lastOp.op = "flushSkipped"
    /\ clusterer # Undefined
    /\ Markers(clusterer) # {}
    /\ Len(changesQueue) = 0
    /\ EngineCalls = <<>>

\* ---- C17 --------------------------------------------------------------------
\* C17: the Marker under the clusterer keeps the id its first render took from
\* markerCounter, which no Marker rendered later can take; over its lifetime it calls
\* register exactly once, in its first commit; every later render (so every change of
\* its properties) ends in a call of update with the new properties; its unmount calls
\* unregister; and every call it makes carries its id and, where a kind is passed,
\* the kind "Marker".
C17_MarkerLifecycle ==
    /\ marker.inTree = "no" => (marker.registers = 0 /\ registryCalls = <<>>)
    /\ marker.inTree # "no" =>
          /\ marker.registers = 1
          /\ marker.isMounted
          /\ marker.id < markerCounter
    /\ \A k \in 1..Len(registryCalls) :
          /\ registryCalls[k].id = marker.id
          /\ registryCalls[k].op \in {"register", "update"} => registryCalls[k].type = "Marker"
    /\ lastOp.op = "markerRender" =>
          /\ lastOp.id = marker.id
          /\ registryCalls[Len(registryCalls)].position = lastOp.position
          /\ registryCalls[Len(registryCalls)].op =
                 (IF Len(registryCalls) = 1 THEN "register" ELSE "update")
          /\ \A k \in 1..Len(registryCalls) : registryCalls[k].op = "register" => k = 1
    /\ lastOp.op = "markerUnmount" =>
          /\ marker.inTree = "gone"
          /\ Len(registryCalls) = 1
          /\ registryCalls[1].op = "unregister"

\* the Marker, mounted at position A and moved to B by a later render, has just been
\* unmounted after a flush created its native object
C17_Witness ==
    /\ lastOp.op = "markerUnmount"
    /\ marker.registers = 1
    /\ markerCounter >= marker.id + 3
    /\ kakaoInstances[marker.id] # Undefined
    /\ markerDescriptors[marker.id].position = "B"

\* ---- C18 --------------------------------------------------------------------
\* the handles in the Instance Store
StoredHandles == { kakaoInstances[id] : id \in Keys(kakaoInstances) }

\* C18: after every completed flush the active engine instance (the one last handed to
\* setClusterer) holds exactly the native objects whose handles are in the Instance
\* Store, one per id in the store; the queue being empty then, these are the objects
\* of the children that are mounted.
C18_EngineHoldsStore ==
    Flushed =>
        /\ Len(changesQueue) = 0
        /\ Markers(clustererState) = StoredHandles
        /\ Cardinality(Markers(clustererState)) = Cardinality(Keys(kakaoInstances))

\* ---- C19 --------------------------------------------------------------------
\* C19: no addMarkers, removeMarkers or redraw of a flush goes to an engine instance on
\* which the cleanup of the engine effect has called clear(); in the commit that tears
\* one instance down and constructs the next, the flush does not run against the
\* former.
C19_NoCallOnTornDownEngine ==
    \A k \in 1..Len(calls) :
        calls[k].fn \in {"addMarkers", "removeMarkers", "redraw"} =>
            /\ ~clusterers[calls[k].target].cleared
            /\ calls[k].target = clustererState

\* ---- C20 --------------------------------------------------------------------
\* C20: when the Marker re-renders while its native object is live, its commit calls
\* unregister(id) and then update(id, "Marker", new props), and leaves one queue entry
\* for the id: not the tombstone but the recorded descriptor with the new props.  The
\* flush that takes this entry updates in place: the Instance Store holds the handle
\* it held, the object gets the new position once, bookkeeping records the new
\* descriptor, and the handle is passed neither to removeMarkers nor to addMarkers.
C20_RerenderUpdatesInPlace ==
    /\ (lastOp.op = "markerRender" /\ kakaoInstances[marker.id] # Undefined) =>
          /\ registryCalls =
                 << RegistryOp("unregister", marker.id, "-", "-", "-"),
                    RegistryOp("update", marker.id, "Marker", lastOp.position, "none") >>
          /\ Cardinality(EntriesFor(changesQueue, marker.id)) = 1
          /\ changesQueue[QueueGet(changesQueue, marker.id)].descriptor =
                 [markerDescriptors[marker.id] EXCEPT !.position = lastOp.position,
                                                      !.children = "none"]
    /\ (Flushed /\ marker.id \in Updates) =>
          /\ marker.inTree = "yes"
          /\ kakaoInstances[marker.id] = before.kakaoInstances[marker.id]
          /\ markerDescriptors[marker.id] = Snapshot(marker.id)
          /\ kakaoInstances[marker.id] \notin Passed("addMarkers") \cup Passed("removeMarkers")
          /\ Cardinality({ k \in 1..Len(calls) :
                              calls[k] = Call("setPosition", kakaoInstances[marker.id], <<>>,
                                              Snapshot(marker.id).position) }) = 1
          /\ natives = before.natives + Cardinality(Creates)

\* the flush that just ran took the entry of the live Marker, re-rendered at another
\* position, together with the creation of the content overlay
C20_Witness ==
    /\ Flushed
    /\ marker.id \in Updates
    /\ Creates # {}
    /\ Len(CallsOf("addMarkers")) = 1
    /\ before.markerDescriptors[marker.id].position # markerDescriptors[marker.id].position

====
